---- MODULE Spec2Model ----
(***************************************************************************)
(* Model of zserge/kv: the directory store (dirStore) that keeps every     *)
(* item in its own file, and the LRU cache (lru) that may wrap it as a     *)
(* write-back backend.                                                     *)
(*                                                                         *)
(* Strings are sequences of one-character strings, so that Split,          *)
(* QueryEscape and HasPrefix are computed and not assumed.  A path is the  *)
(* sequence of its (escaped) components below the store's root; the root   *)
(* itself is the empty path.  The directory that contains the root always  *)
(* exists.  Keys with "." or ".." components are outside the key sets.     *)
(***************************************************************************)
EXTENDS Integers, Sequences, FiniteSets, Bags, TLC

\* ------------------------------------------------------------------ bounds
\* number of write goroutines of the directory store that may be in flight
MaxTasks == 2
\* largest capacity given to NewLRU without a backend
MaxSize == 2
\* largest capacity given to NewLRU with a backend
MaxBackedSize == 1
\* longest ByteItem value, in bytes
MaxLen == 2
\* number of dirStore.Flush goroutines that may be in flight
MaxFlushes == 2
\* number of Sets whose order of issue is remembered
MaxSets == 2

\* ------------------------------------------------------------------ items
\* a nil Item (the receiver's "no value"); a ByteItem is its Value, a
\* sequence of bytes taken from 1..MaxLen
Nil == <<0>>

\* the ByteItem of n bytes, every byte equal to n
Val(n) == [i \in 1..n |-> n]

Values == {Val(n) : n \in 1..MaxLen}

Items == Values \cup {Nil}

\* the items given to a cache with a backend
BackedItems == {Val(1), Nil}

\* ------------------------------------------------------------------- keys
\* keys given to the directory store on its own
StoreKeys == { <<"a">>, <<"b">>, <<"a", "/", "b">> }

\* keys given to a cache without a backend
MemKeys == { <<"a">>, <<"b">>, <<"c">> }

\* keys given to a cache with a backend
BackedKeys == { <<"a">>, <<"b">> }

\* keys given to the directory store while it is flushed
FlushKeys == { <<"a">>, <<"a", "/", "b">> }

\* keys a directory may hold before the store is opened on it
PreKeys == { <<"a">> }

AllKeys == StoreKeys \cup BackedKeys

\* ------------------------------------------------------------------ mkpath
RECURSIVE Split(_)
\* strings.Split(s, "/")
Split(s) ==
    IF \A i \in 1..Len(s) : s[i] # "/"
    THEN <<s>>
    ELSE LET i == CHOOSE j \in 1..Len(s) :
                      s[j] = "/" /\ \A h \in 1..(j - 1) : s[h] # "/"
         IN  <<SubSeq(s, 1, i - 1)>> \o Split(SubSeq(s, i + 1, Len(s)))

\* url.QueryEscape of one character
EscapeChar(c) ==
    CASE c = " " -> <<"+">>
      [] c = "+" -> <<"%", "2", "B">>
      [] c = "/" -> <<"%", "2", "F">>
      [] OTHER   -> <<c>>

RECURSIVE QueryEscape(_)
\* url.QueryEscape
QueryEscape(s) ==
    IF s = <<>> THEN <<>> ELSE EscapeChar(Head(s)) \o QueryEscape(Tail(s))

RECURSIVE QueryUnescape(_)
\* url.QueryUnescape, for the escapes QueryEscape produces
QueryUnescape(s) ==
    IF s = <<>> THEN <<>>
    ELSE IF Head(s) = "+" THEN <<" ">> \o QueryUnescape(Tail(s))
    ELSE IF Len(s) >= 3 /\ SubSeq(s, 1, 3) = <<"%", "2", "B">>
         THEN <<"+">> \o QueryUnescape(SubSeq(s, 4, Len(s)))
    ELSE IF Len(s) >= 3 /\ SubSeq(s, 1, 3) = <<"%", "2", "F">>
         THEN <<"/">> \o QueryUnescape(SubSeq(s, 4, Len(s)))
    ELSE <<Head(s)>> \o QueryUnescape(Tail(s))

\* mkpath(root, s): the components of s, escaped one by one and joined
\* below the root; filepath.Join drops the empty components
mkpath(s) ==
    LET parts == Split(s)
        esc   == [i \in 1..Len(parts) |-> QueryEscape(parts[i])]
    IN  SelectSeq(esc, LAMBDA p : p # <<>>)

\* -------------------------------------------------------------- file system
\* every path the keys of the model can name, with its ancestors
Paths == UNION {{SubSeq(mkpath(k), 1, n) : n \in 0..Len(mkpath(k))} : k \in AllKeys}

Root == <<>>

\* filepath.Dir of a path below the root
Parent(p) == SubSeq(p, 1, Len(p) - 1)

NoEnt == [kind |-> "none", data |-> <<>>]
DirNode == [kind |-> "dir", data |-> <<>>]
FileNode(d) == [kind |-> "file", data |-> d]

\* the directory that holds p exists (the one that holds the root always does)
ParentIsDir(f, p) == p = Root \/ f[Parent(p)].kind = "dir"

\* the entries of directory p
Children(f, p) == {q \in Paths : Len(q) = Len(p) + 1 /\ Parent(q) = p /\ f[q].kind # "none"}

RECURSIVE MkdirAll(_, _)
\* os.MkdirAll(p): creates p and its missing ancestors; gives up where an
\* ancestor is a file
MkdirAll(f, p) ==
    IF f[p].kind # "none" THEN f
    ELSE LET g == IF p = Root THEN f ELSE MkdirAll(f, Parent(p))
         IN  IF ParentIsDir(g, p) THEN [g EXCEPT ![p] = DirNode] ELSE g

\* os.Remove(p) fails: nothing there, or a directory that is not empty
RemoveFails(f, p) ==
    \/ f[p].kind = "none"
    \/ f[p].kind = "dir" /\ Children(f, p) # {}

\* os.Remove(p): unlinks a file, removes an empty directory
Remove(f, p) == IF RemoveFails(f, p) THEN f ELSE [f EXCEPT ![p] = NoEnt]

\* os.OpenFile(p, O_WRONLY|O_CREATE, 0600) fails: p is a directory, or the
\* directory that should hold p does not exist
OpenFileFails(f, p) ==
    \/ f[p].kind = "dir"
    \/ f[p].kind = "none" /\ ~ParentIsDir(f, p)

\* os.OpenFile(p, O_WRONLY|O_CREATE, 0600): creates an empty file where there
\* is none; an existing file keeps its content (there is no O_TRUNC)
OpenFile(f, p) ==
    IF ~OpenFileFails(f, p) /\ f[p].kind = "none"
    THEN [f EXCEPT ![p] = FileNode(<<>>)]
    ELSE f

\* ByteItem.WriteTo on a file opened at offset 0: the bytes of v replace the
\* first Len(v) bytes of the file, what lies behind them stays
WriteAt0(old, v) == v \o SubSeq(old, Len(v) + 1, Len(old))

\* item.WriteTo(f) through the descriptor OpenFile returned; a file that was
\* unlinked in between takes the bytes with it
WriteTo(f, p, v) ==
    IF f[p].kind = "file"
    THEN [f EXCEPT ![p] = FileNode(WriteAt0(f[p].data, v))]
    ELSE f

\* dirStore.Get with a ByteItem template: the file's bytes, or nil when the
\* path cannot be opened or read (a directory cannot be read)
DirGet(f, key) ==
    LET p == mkpath(key) IN IF f[p].kind = "file" THEN f[p].data ELSE Nil

\* strings.HasPrefix
HasPrefix(s, prefix) ==
    Len(s) >= Len(prefix) /\ SubSeq(s, 1, Len(prefix)) = prefix

RECURSIVE JoinSlash(_)
\* a path as one string, its components separated by "/"
JoinSlash(p) ==
    IF p = <<>> THEN <<>>
    ELSE IF Len(p) = 1 THEN p[1]
    ELSE p[1] \o <<"/">> \o JoinSlash(Tail(p))

\* dirStore.List: the glob is mkpath(root, prefix+"x") without its last
\* character, followed by "*"; it matches the entries of one directory whose
\* names start with the last (escaped) component of the prefix; regular files
\* only, unescaped and made relative to the root
DirList(f, prefix) ==
    LET pfx   == IF prefix = <<>> THEN <<"/">> ELSE prefix
        g     == mkpath(pfx \o <<"x">>)
        dir   == Parent(g)
        last  == g[Len(g)]
        start == SubSeq(last, 1, Len(last) - 1)
    IN  { QueryUnescape(JoinSlash(q)) :
            q \in { c \in Children(f, dir) :
                      HasPrefix(c[Len(c)], start) /\ f[c].kind = "file" } }


\* ------------------------------------------------------------------- state
VARIABLES
    fs,       \* the directory tree below (and including) the store's root
    tasks,    \* the running write goroutines of dirStore.Set (a bag)
    sig,      \* the channel a write goroutine closed in the last step
    elems,    \* lru.l: the list elements and the *lruItem each one holds
    l,        \* lru.l: the elements from front to back
    m,        \* lru.m: key -> list element (0: no entry)
    size,     \* lru.size
    backend,  \* lru.backend # nil
    lk,       \* lru.mutex: who holds it
    gw,       \* the lru.Get that is blocked in <-store.put(key, item)
    fl,       \* the channel of lru.Flush, returned or closed in the last step
    lastGet,  \* what the lru.Get that returned in the last step handed back
    rec,      \* the resident keys, most recently touched first
    cset,     \* per key, the item of the last lru.Set
    handed,   \* per key, the last lru.Set's item has gone to backend.Set since
    flushers, \* the running goroutines of dirStore.Flush (a bag)
    hist      \* the Sets given to the directory store, in the order of issue

storeVars == <<fs, tasks>>
cacheVars == <<elems, l, m, size, backend, lk, gw, rec, cset, handed>>
obsVars == <<sig, fl, lastGet>>
flushVars == <<flushers, hist>>
vars == <<fs, tasks, sig, elems, l, m, size, backend, lk, gw, fl, lastGet, rec, cset,
          handed,
          flushers, hist>>

\* the goroutines that have not finished (store.wg counts them)
Tasks == BagToSet(tasks)

\* one goroutine moves on
Step(ts, r, to) == (ts (-) SetToBag({r})) (+) SetToBag({to})

RECURSIVE Overlapped(_, _)
\* the goroutines that write the file of key get company
Overlapped(ts, key) ==
    LET hit(q) == q.alone /\ mkpath(q.key) = mkpath(key)
    IN  IF \E q \in BagToSet(ts) : hit(q)
        THEN LET r == CHOOSE q \in BagToSet(ts) : hit(q)
             IN  Overlapped(Step(ts, r, [r EXCEPT !.alone = FALSE]), key)
        ELSE ts

\* dirStore.Set: the goroutine is spawned under the lock and runs on its own;
\* own says who holds the returned channel ("dir": a caller of the store,
\* "set": the caller of lru.Set, "get": lru.Get, "flush": nobody), ckey is
\* the key that caller gave; alone: no other Set on the same file has been in
\* flight since this one was called
Spawn(ts, key, item, own, ckey) ==
    LET same(q) == mkpath(q.key) = mkpath(key)
        rest    == Overlapped(ts, key)
    IN  rest (+) SetToBag({[pc |-> "start", key |-> key, item |-> item,
                            own |-> own, ckey |-> ckey,
                            alone |-> \A q \in BagToSet(ts) : ~same(q)]})

\* the closed channel of goroutine r: who holds it, the key that caller gave,
\* and whether an error was sent on it
Closed(r, err) == [own |-> r.own, key |-> r.ckey, err |-> err]

\* no channel closed so far
NoSig == [own |-> "none", key |-> <<>>, err |-> FALSE]

\* no lru.Get returned
NoRet == [key |-> <<>>, res |-> Nil, done |-> FALSE, ret |-> FALSE]

\* what a step lets its callers see: the channel a write goroutine closed,
\* the channel of lru.Flush, the result of lru.Get
Observed(c, f, g) == sig' = c /\ fl' = f /\ lastGet' = g

\* wg.Done(): the goroutine is gone
Finish(ts, r) == ts (-) SetToBag({r})

RECURSIVE Released(_)
\* the goroutines blocked in wg.Wait() are made runnable
Released(ws) ==
    IF \E w \in BagToSet(ws) : w.pc = "wait"
    THEN LET w == CHOOSE x \in BagToSet(ws) : x.pc = "wait"
         IN  Released(Step(ws, w, [w EXCEPT !.pc = "woken"]))
    ELSE ws

\* wg.Done() seen from wg.Wait(): the Done that brings the counter to zero
\* releases every waiter
WgDone(ws, ts) == IF ts = EmptyBag THEN Released(ws) ELSE ws

\* ---------------------------------------------------- dirStore: operations
\* dirStore.Set called on the store itself
DirSet(key, item) ==
    /\ BagCardinality(tasks) < MaxTasks
    /\ tasks' = Spawn(tasks, key, item, "dir", key)
    /\ Observed(NoSig, "none", NoRet)
    /\ UNCHANGED <<fs, cacheVars, flushVars>>

\* the goroutine of Set, item == nil: os.Remove, the error goes to c
TaskRemove(r) ==
    /\ r.pc = "start"
    /\ r.item = Nil
    /\ LET p == mkpath(r.key)
       IN  /\ fs' = Remove(fs, p)
           /\ Observed(Closed(r, RemoveFails(fs, p)), "none", NoRet)
    /\ tasks' = Finish(tasks, r)
    /\ flushers' = WgDone(flushers, Finish(tasks, r))
    /\ UNCHANGED <<cacheVars, hist>>

\* the goroutine of Set, item != nil: os.MkdirAll(filepath.Dir(s), 0700),
\* its error is dropped
TaskMkdirAll(r) ==
    /\ r.pc = "start"
    /\ r.item # Nil
    /\ LET p == mkpath(r.key)
       IN  fs' = IF p = Root THEN fs ELSE MkdirAll(fs, Parent(p))
    /\ tasks' = Step(tasks, r, [r EXCEPT !.pc = "open"])
    /\ Observed(NoSig, "none", NoRet)
    /\ UNCHANGED <<cacheVars, flushVars>>

\* the goroutine of Set: os.OpenFile, an error goes to c and ends it
TaskOpenFile(r) ==
    /\ r.pc = "open"
    /\ LET p == mkpath(r.key)
       IN  /\ fs' = OpenFile(fs, p)
           /\ IF OpenFileFails(fs, p)
              THEN /\ tasks' = Finish(tasks, r)
                   /\ flushers' = WgDone(flushers, Finish(tasks, r))
                   /\ Observed(Closed(r, TRUE), "none", NoRet)
              ELSE /\ tasks' = Step(tasks, r, [r EXCEPT !.pc = "write"])
                   /\ UNCHANGED flushers
                   /\ Observed(NoSig, "none", NoRet)
    /\ UNCHANGED <<cacheVars, hist>>

\* the goroutine of Set: item.WriteTo(f), then f.Close, close(c), wg.Done
TaskWriteTo(r) ==
    /\ r.pc = "write"
    /\ fs' = WriteTo(fs, mkpath(r.key), r.item)
    /\ tasks' = Finish(tasks, r)
    /\ flushers' = WgDone(flushers, Finish(tasks, r))
    /\ Observed(Closed(r, FALSE), "none", NoRet)
    /\ UNCHANGED <<cacheVars, hist>>

TaskStep ==
    \E r \in Tasks :
        TaskRemove(r) \/ TaskMkdirAll(r) \/ TaskOpenFile(r) \/ TaskWriteTo(r)

\* ------------------------------------------------------------ initial state
EmptyFs == [p \in Paths |-> NoEnt]

NoItem == [K |-> <<>>, V |-> Nil]
NoGet == [nilch |-> FALSE, key |-> <<>>, item |-> Nil, done |-> FALSE]
\* no lru.Set on the key so far
Unset == <<-1>>

\* no cache: NewStore on a directory that does not exist yet
InitStore ==
    /\ fs = EmptyFs
    /\ tasks = EmptyBag
    /\ sig = NoSig
    /\ elems = <<>>
    /\ l = <<>>
    /\ m = <<>>
    /\ size = 0
    /\ backend = FALSE
    /\ lk = "none"
    /\ gw = NoGet
    /\ fl = "none"
    /\ lastGet = NoRet
    /\ rec = <<>>
    /\ cset = <<>>
    /\ handed = <<>>
    /\ flushers = EmptyBag
    /\ hist = <<>>

NextStore ==
    \/ \E key \in StoreKeys, item \in Items : DirSet(key, item)
    \/ TaskStep

SpecStore == InitStore /\ [][NextStore]_vars

\* ------------------------------------------------ dirStore: failing writes
\* the goroutine of Set: item.WriteTo(f) returns an error after it wrote only
\* the first n bytes (the disk is full, the item cannot be encoded); the
\* error is dropped, then f.Close, close(c), wg.Done
TaskWriteFails(r) ==
    /\ r.pc = "write"
    /\ \E n \in 0..(Len(r.item) - 1) :
          fs' = WriteTo(fs, mkpath(r.key), SubSeq(r.item, 1, n))
    /\ tasks' = Finish(tasks, r)
    /\ flushers' = WgDone(flushers, Finish(tasks, r))
    /\ Observed(Closed(r, FALSE), "none", NoRet)
    /\ UNCHANGED <<cacheVars, hist>>

NextWrite ==
    \/ \E key \in StoreKeys, item \in Items : DirSet(key, item)
    \/ TaskStep
    \/ \E r \in Tasks : TaskWriteFails(r)

SpecWrite == InitStore /\ [][NextWrite]_vars

\* ------------------------------------------------------- dirStore: Flush
\* a goroutine of Flush found the WaitGroup in use again when it woke up:
\* the runtime panics ("WaitGroup is reused before previous Wait has
\* returned") and the process is gone
Panicked == \E w \in BagToSet(flushers) : w.pc = "panic"

\* dirStore.Set called on the store itself, its place in the order of issue
\* remembered
FlushSet(key, item) ==
    /\ ~Panicked
    /\ Len(hist) < MaxSets
    /\ BagCardinality(tasks) < MaxTasks
    /\ tasks' = Spawn(tasks, key, item, "dir", key)
    /\ hist' = Append(hist, [key |-> key, item |-> item])
    /\ Observed(NoSig, "none", NoRet)
    /\ UNCHANGED <<fs, cacheVars, flushers>>

\* dirStore.Flush: makes the channel, starts the goroutine and returns; at is
\* the number of Sets issued before the call
DirFlush ==
    /\ ~Panicked
    /\ BagCardinality(flushers) < MaxFlushes
    /\ flushers' = flushers (+) SetToBag({[pc |-> "start", at |-> Len(hist)]})
    /\ Observed(NoSig, "none", NoRet)
    /\ UNCHANGED <<fs, tasks, cacheVars, hist>>

\* the goroutine of Flush calls store.wg.Wait(): it returns at once when the
\* counter is zero, and otherwise blocks as a waiter
FlushWait(w) ==
    /\ ~Panicked
    /\ w.pc = "start"
    /\ flushers' = Step(flushers, w,
                        [w EXCEPT !.pc = IF tasks = EmptyBag THEN "sync" ELSE "wait"])
    /\ Observed(NoSig, "none", NoRet)
    /\ UNCHANGED <<fs, tasks, cacheVars, hist>>

\* the goroutine of Flush, released by the last wg.Done(), runs again inside
\* wg.Wait(): a counter that is no longer zero makes Wait panic
FlushWake(w) ==
    /\ ~Panicked
    /\ w.pc = "woken"
    /\ flushers' = Step(flushers, w,
                        [w EXCEPT !.pc = IF tasks = EmptyBag THEN "sync" ELSE "panic"])
    /\ Observed(NoSig, "none", NoRet)
    /\ UNCHANGED <<fs, tasks, cacheVars, hist>>

\* the goroutine of Flush: syscall.Sync(), close(c)
FlushClose(w) ==
    /\ ~Panicked
    /\ w.pc = "sync"
    /\ flushers' = Finish(flushers, w)
    /\ Observed(NoSig, "none", NoRet)
    /\ UNCHANGED <<fs, tasks, cacheVars, hist>>

FlushStep ==
    \E w \in BagToSet(flushers) : FlushWait(w) \/ FlushWake(w) \/ FlushClose(w)

\* the write goroutines of a process that has not panicked
FlushTaskStep == ~Panicked /\ TaskStep

NextFlush ==
    \/ \E key \in FlushKeys, item \in Items : FlushSet(key, item)
    \/ DirFlush
    \/ FlushStep
    \/ FlushTaskStep

SpecFlush == InitStore /\ [][NextFlush]_vars

\* ----------------------------------------------------------- lru: helpers
\* the keys the callers of the cache use
CacheKeys == DOMAIN m

\* the keys of store.m whose element holds an item, entries with a nil item
\* left out
ResidentPresent == {k \in DOMAIN m : m[k] # 0 /\ elems[m[k]].V # Nil}

\* the keys of store.m
Resident == {k \in CacheKeys : m[k] # 0}

\* the element stays where it is
KeptInPlace(ls, e) == ls

\* list.MoveToFront
MoveToFront(ls, e) == <<e>> \o SelectSeq(ls, LAMBDA x : x # e)

\* the element at the wrong end of the list
BackIsFront(ls) == ls[1]

\* list.Back
Back(ls) == ls[Len(ls)]

\* the capacity test off by one
PutEvictsLate == ~(Cardinality(Resident) <= size)

\* lru.put evicts: len(store.m) < store.size does not hold
PutEvicts == ~(Cardinality(Resident) < size)

\* lru.put that forgets delete(store.m, value.K) when it reuses the back
\* element
PutKeepsVictim(key, item) ==
    IF ~PutEvicts
    THEN LET e == Len(l) + 1
         IN  [elems |-> [elems EXCEPT ![e] = [K |-> key, V |-> item]],
              l     |-> <<e>> \o l,
              m     |-> [m EXCEPT ![key] = e]]
    ELSE LET el == Back(l)
         IN  [elems |-> [elems EXCEPT ![el] = [K |-> key, V |-> item]],
              l     |-> MoveToFront(l, el),
              m     |-> [m EXCEPT ![key] = el]]

\* lru.put(key, item): what it leaves in the list, in the elements and in the
\* map; below capacity a new element is pushed to the front, otherwise the
\* back element is given the new pair and moved to the front
PutResult(key, item) ==
    IF ~PutEvicts
    THEN LET e == Len(l) + 1
         IN  [elems |-> [elems EXCEPT ![e] = [K |-> key, V |-> item]],
              l     |-> <<e>> \o l,
              m     |-> [m EXCEPT ![key] = e]]
    ELSE LET el    == Back(l)
             value == elems[el]
         IN  [elems |-> [elems EXCEPT ![el] = [K |-> key, V |-> item]],
              l     |-> MoveToFront(l, el),
              m     |-> [[m EXCEPT ![value.K] = 0] EXCEPT ![key] = el]]

\* the evicted key handed to the backend without its item
VictimDropped == [K |-> elems[Back(l)].K, V |-> Nil]

\* the pair lru.put hands to the backend when it evicts
Victim == elems[Back(l)]

\* the resident keys, most recently touched first, after key was touched and
\* the keys outside the new map were dropped
Touched(r, key, newm) ==
    <<key>> \o SelectSeq(r, LAMBDA x : x # key /\ newm[x] # 0)

\* the channels earlier calls of lru.Set on key returned are no longer the
\* signal of the last lru.Set on key
RECURSIVE Superseded(_, _)
Superseded(ts, key) ==
    IF \E r \in BagToSet(ts) : r.own = "set" /\ r.ckey = key
    THEN LET r == CHOOSE x \in BagToSet(ts) : x.own = "set" /\ x.ckey = key
         IN  Superseded(Step(ts, r, [r EXCEPT !.own = "dir"]), key)
    ELSE ts

\* the channel the last lru.Set on key returned is closed
SetDone(key) ==
    \A r \in Tasks : ~(r.own = "set" /\ r.ckey = key)

\* the calls of backend.Set(k, v) whose goroutine has not taken a step
Dispatches(ts, k, v) ==
    LET rs == {r \in BagToSet(ts) : r.pc = "start" /\ r.key = k /\ r.item = v}
        RECURSIVE Sum(_)
        Sum(S) == IF S = {} THEN 0
                  ELSE LET r == CHOOSE x \in S : TRUE
                       IN  CopiesIn(r, ts) + Sum(S \ {r})
    IN  Sum(rs)

\* from ts to ts2 the cache called backend.Set(k, v)
Dispatched(ts, ts2, k, v) == Dispatches(ts2, k, v) > Dispatches(ts, k, v)

\* the keys whose last lru.Set carried an item that has gone to backend.Set
\* since, after the tasks went from ts to ts2
HandedOn(ts, ts2) ==
    [k \in DOMAIN handed |->
        handed[k] \/ (cset[k] \in Values /\ Dispatched(ts, ts2, k, cset[k]))]

\* lru.List: the keys of the map that start with prefix
LruList(prefix) == {k \in Resident : HasPrefix(k, prefix)}

\* ---------------------------------------------------------- lru: operations
\* lru.Set
LruSet(key, item) ==
    /\ lk = "none"
    /\ cset' = [cset EXCEPT ![key] = item]
    /\ IF m[key] # 0
       THEN \* the entry is there: new pair in its element, moved to the front
            /\ elems' = [elems EXCEPT ![m[key]] = [K |-> key, V |-> item]]
            /\ l' = MoveToFront(l, m[key])
            /\ rec' = Touched(rec, key, m)
            /\ tasks' = Superseded(tasks, key)
            /\ UNCHANGED <<fs, m>>
       ELSE IF item # Nil
       THEN LET r == PutResult(key, item)
            IN  /\ elems' = r.elems
                /\ l' = r.l
                /\ m' = r.m
                /\ rec' = Touched(rec, key, r.m)
                /\ IF PutEvicts /\ backend
                   THEN \* put returns the channel of backend.Set
                        /\ BagCardinality(tasks) < MaxTasks
                        /\ tasks' = Spawn(Superseded(tasks, key),
                                          Victim.K, Victim.V, "set", key)
                   ELSE tasks' = Superseded(tasks, key)
                /\ UNCHANGED fs
       ELSE \* nil item, no entry: nothing happens
            /\ tasks' = Superseded(tasks, key)
            /\ UNCHANGED <<fs, elems, l, m, rec>>
    /\ handed' = [HandedOn(tasks, tasks') EXCEPT ![key] = FALSE]
    /\ Observed(NoSig, "none", NoRet)
    /\ UNCHANGED <<size, backend, lk, gw, flushVars>>

\* what an lru.Get hands back to its caller; done: the channel of the last
\* lru.Set on the key was closed when Get was called
Returned(key, res, done) ==
    [key |-> key, res |-> res, done |-> done, ret |-> TRUE]

\* lru.Get up to its return or up to the receive from put's channel
LruGet(key) ==
    /\ lk = "none"
    /\ IF m[key] # 0
       THEN \* hit
            /\ l' = MoveToFront(l, m[key])
            /\ rec' = Touched(rec, key, m)
            /\ Observed(NoSig, "none", Returned(key, elems[m[key]].V, SetDone(key)))
            /\ UNCHANGED <<fs, tasks, elems, m, lk, gw>>
       ELSE IF backend /\ DirGet(fs, key) # Nil
       THEN LET item == DirGet(fs, key)
                r    == PutResult(key, item)
            IN  /\ elems' = r.elems
                /\ l' = r.l
                /\ m' = r.m
                /\ rec' = Touched(rec, key, r.m)
                /\ lk' = "get"
                /\ gw' = [nilch |-> ~PutEvicts, key |-> key, item |-> item,
                          done |-> SetDone(key)]
                /\ IF PutEvicts
                   THEN /\ BagCardinality(tasks) < MaxTasks
                        /\ tasks' = Spawn(tasks, Victim.K, Victim.V, "get", key)
                   ELSE \* put returned a nil channel
                        UNCHANGED tasks
                /\ Observed(NoSig, "none", NoRet)
                /\ UNCHANGED fs
       ELSE \* no backend, or the backend has nothing
            /\ Observed(NoSig, "none", Returned(key, Nil, SetDone(key)))
            /\ UNCHANGED <<fs, tasks, elems, l, m, lk, gw, rec>>
    /\ handed' = HandedOn(tasks, tasks')
    /\ UNCHANGED <<size, backend, cset, flushVars>>

\* lru.Get: the channel put returned is closed, Get returns the item
LruGetReturn ==
    /\ lk = "get"
    /\ ~gw.nilch
    /\ \A r \in Tasks : r.own # "get"
    /\ Observed(NoSig, "none", Returned(gw.key, gw.item, gw.done))
    /\ lk' = "none"
    /\ gw' = NoGet
    /\ UNCHANGED <<fs, tasks, elems, l, m, size, backend, rec, cset, handed, flushVars>>

RECURSIVE SpawnAll(_, _)
\* the loop of lru.Flush: backend.Set for every entry of the map
SpawnAll(ts, keys) ==
    IF keys = {} THEN ts
    ELSE LET k    == CHOOSE x \in keys : TRUE
             pair == elems[m[k]]
         IN  SpawnAll(Spawn(ts, pair.K, pair.V, "flush", pair.K), keys \ {k})

\* lru.Flush: without a backend it returns the channel it made; with one, its
\* goroutine takes the lock and hands every entry to the backend
LruFlush ==
    /\ lk = "none"
    /\ Observed(NoSig, "open", NoRet)
    /\ IF backend
       THEN /\ BagCardinality(tasks) + Cardinality(Resident) <= MaxTasks
            /\ tasks' = SpawnAll(tasks, Resident)
            /\ lk' = "flush"
       ELSE UNCHANGED <<tasks, lk>>
    /\ handed' = HandedOn(tasks, tasks')
    /\ UNCHANGED <<fs, elems, l, m, size, backend, gw, rec, cset, flushVars>>

\* lru.Flush: backend.Flush has waited for the write goroutines (wg.Wait) and
\* closed its channel without a value; the goroutine closes c and unlocks
LruFlushDone ==
    /\ lk = "flush"
    /\ tasks = EmptyBag
    /\ Observed(NoSig, "closed", NoRet)
    /\ lk' = "none"
    /\ UNCHANGED <<fs, tasks, elems, l, m, size, backend, gw, rec, cset, handed, flushVars>>

\* a directory an earlier run of the store left: the keys of ks hold the value v
RECURSIVE FsWith(_, _)
FsWith(ks, v) ==
    IF ks = {} THEN EmptyFs
    ELSE LET k == CHOOSE x \in ks : TRUE
             p == mkpath(k)
             f == FsWith(ks \ {k}, v)
         IN  WriteTo(OpenFile(MkdirAll(f, Parent(p)), p), p, v)

\* NewLRU(size, backend), backend nil or a NewStore
InitLRU ==
    /\ backend \in BOOLEAN
    /\ size \in 1..(IF backend THEN MaxBackedSize ELSE MaxSize)
    /\ fs \in IF backend
              THEN {EmptyFs, FsWith(PreKeys, Val(MaxLen))}
              ELSE {EmptyFs}
    /\ tasks = EmptyBag
    /\ sig = NoSig
    /\ elems = [e \in 1..size |-> NoItem]
    /\ l = <<>>
    /\ m = [k \in IF backend THEN BackedKeys ELSE MemKeys |-> 0]
    /\ lk = "none"
    /\ gw = NoGet
    /\ fl = "none"
    /\ lastGet = NoRet
    /\ rec = <<>>
    /\ cset = [k \in DOMAIN m |-> Unset]
    /\ handed = [k \in DOMAIN m |-> FALSE]
    /\ flushers = EmptyBag
    /\ hist = <<>>

NextLRU ==
    \/ \E key \in CacheKeys, item \in (IF backend THEN BackedItems ELSE Items) :
          LruSet(key, item)
    \/ \E key \in CacheKeys : LruGet(key)
    \/ LruGetReturn
    \/ LruFlush
    \/ LruFlushDone
    \/ TaskStep

SpecLRU == InitLRU /\ [][NextLRU]_vars


\* ================================================================= claims
\* goroutine r closes its channel in this step, with (err) or without an error
Finishes(r, err) ==
    /\ CopiesIn(r, tasks') < CopiesIn(r, tasks)
    /\ BagCardinality(tasks') < BagCardinality(tasks)
    /\ sig' = Closed(r, err)

\* C1: round trip on the directory store: when a Set of a present item closes
\* its channel without an error, and no other Set on the key was in flight
\* since it was called, Get of the key returns the bytes of the item, whatever
\* the file held before.
C1_RoundTrip ==
    [][\A r \in Tasks :
          (r.item # Nil /\ r.alone /\ Finishes(r, FALSE))
              => DirGet(fs', r.key) = r.item]_vars

\* C10: on the directory store, the goroutine of Set(k, nil), running while
\* no other write goroutine runs, sends an error and leaves every key as it
\* was when Get(k) finds nothing, and otherwise sends no error and removes k
\* and nothing else.
C10_Delete ==
    [][\A r \in Tasks :
          (/\ r.item = Nil
           /\ Finishes(r, TRUE) \/ Finishes(r, FALSE)
           /\ BagCardinality(tasks) = 1)
              => IF DirGet(fs, r.key) = Nil
                 THEN /\ Finishes(r, TRUE)
                      /\ \A k \in StoreKeys : DirGet(fs', k) = DirGet(fs, k)
                 ELSE /\ Finishes(r, FALSE)
                      /\ DirGet(fs', r.key) = Nil
                      /\ \A k \in StoreKeys \ {r.key} : DirGet(fs', k) = DirGet(fs, k)]_vars


\* C2: the map of the cache never holds more keys than the capacity.
C2_Capacity == Cardinality(Resident) <= size

\* C2 witness: the cache is full and a key that was set is no longer in it
C2_Witness ==
    /\ size >= 1
    /\ Cardinality(Resident) = size
    /\ \E k \in CacheKeys : cset[k] \in Values /\ m[k] = 0

\* the keys of the list elements, front to back
ListKeys == [i \in 1..Len(l) |-> elems[l[i]].K]

C4_ReadThrough == lk = "get" => (~gw.nilch /\ m[gw.key] # 0)

\* C5: when the write goroutine of an eviction, running with no other Set on
\* the same file in flight, closes its channel, the backend lists the evicted
\* key and returns the evicted (present) item for it; and a key only gets into
\* the backend through an eviction or a flush.
C5_WriteBack ==
    [][/\ \A r \in Tasks :
             (/\ r.own \in {"set", "get"}
              /\ r.item # Nil
              /\ r.alone
              /\ Finishes(r, TRUE) \/ Finishes(r, FALSE))
                 => /\ r.key \in DirList(fs', <<>>)
                    /\ DirGet(fs', r.key) = r.item
       /\ \A k \in CacheKeys :
             (k \in DirList(fs', <<>>) /\ k \notin DirList(fs, <<>>))
                 => \E r \in Tasks : r.key = k]_vars

\* C6: on a cache with a backend, a Get of key k, called after the last Set(k, item) with a present item
\* had its channel closed, returns that item.
C6_Visible ==
    (backend /\ lastGet.ret /\ lastGet.done /\ cset[lastGet.key] \in Values)
        => lastGet.res = cset[lastGet.key]

\* C7: when the Flush of a cache with a backend closes its channel, the
\* backend lists every key of the cache.
C7_Flush ==
    [][(lk = "flush" /\ lk' = "none")
          => \A k \in Resident : k \in DirList(fs', <<>>)]_vars

\* C8: the channel Flush returns on a cache without a backend is closed.
C8_FlushNoBackend == ~backend => fl # "open"

\* C9: a Get of key k, called after the last Set(k, nil) had its channel
\* closed, returns nil.
C9_Deleted ==
    (lastGet.ret /\ lastGet.done /\ cset[lastGet.key] = Nil)
        => lastGet.res = Nil

\* the prefixes given to dirStore.List
Prefixes == { <<>>, <<"a">>, <<"b">>, <<"a", "/">>, <<"a", "/", "b">> }

\* the keys the directory store holds: Get finds a value
Stored(f) == {k \in StoreKeys : DirGet(f, k) # Nil}

\* C11: on the directory store, with no write goroutine in flight, List(prefix)
\* returns exactly the stored keys that start with prefix, for every prefix
\* and for keys of one or of several segments alike.
C11_ListExact ==
    tasks = EmptyBag =>
        \A prefix \in Prefixes :
            DirList(fs, prefix) = {k \in Stored(fs) : HasPrefix(k, prefix)}

\* the paths of two keys get in each other's way: one is a directory on the
\* way to the other
Clash(k1, k2) ==
    /\ mkpath(k1) # mkpath(k2)
    /\ HasPrefix(mkpath(k1), mkpath(k2)) \/ HasPrefix(mkpath(k2), mkpath(k1))

\* the Sets of h all carry an item and cannot fail on each other
Clean(h) ==
    /\ \A i \in 1..Len(h) : h[i].item # Nil
    /\ \A i, j \in 1..Len(h) : ~Clash(h[i].key, h[j].key)

\* C12: when a goroutine of dirStore.Flush closes its channel and no Set was
\* issued after the call of Flush, no write goroutine is in flight any more;
\* and if the Sets before it all carried an item and could not fail, Get finds
\* each of their keys and List("") returns it.
C12_FlushBarrier ==
    [][\A w \in BagToSet(flushers) :
          (FlushClose(w) /\ Len(hist) = w.at)
              => /\ tasks = EmptyBag
                 /\ Clean(hist) =>
                       \A i \in 1..Len(hist) :
                           /\ DirGet(fs, hist[i].key) # Nil
                           /\ hist[i].key \in DirList(fs, <<>>)]_vars

\* C13: no goroutine of dirStore.Flush is lost: every one of them can still
\* reach the close of its channel, whatever Sets and Flushes run beside it.
C13_FlushRepeatable == ~Panicked

\* C16: when a goroutine of dirStore.Flush closes its channel, the Flush was
\* called after two Sets on one key and these are all the Sets there were,
\* Get of the key returns what the second Set carried (nil for a delete).
C16_LastSetWins ==
    [][\A w \in BagToSet(flushers) :
          (/\ FlushClose(w)
           /\ w.at = 2 /\ Len(hist) = 2
           /\ hist[1].key = hist[2].key)
              => DirGet(fs, hist[2].key) = hist[2].item]_vars

\* C14: the channel a cache Set returned never carries the error of the
\* backend write its eviction started, and a cache Get that waited for such a
\* write returns the item it read from the backend, error or not.
C14_HiddenError ==
    [][/\ sig'.own = "set" => ~sig'.err
       /\ LruGetReturn => lastGet'.res = gw.item]_vars

\* C17: while the mutex of the cache is held, nobody waits for a write
\* goroutine of the backend: not the Get whose put evicted an entry, not the
\* goroutine of Flush.
C17_LockNotHeldWaiting ==
    lk # "none" => \A r \in Tasks : r.own \notin {"get", "flush"}

\* C15: the goroutine of a Set with a present item sends an error exactly when
\* one of its steps failed: an error is sent only by an OpenFile that failed,
\* an OpenFile whose directory MkdirAll could not make sends one, and a
\* channel closed without an error means the item's bytes were written: the
\* file, if it is still there, begins with them.
C15_WriteErrors ==
    [][\A r \in Tasks :
          r.item # Nil =>
              LET p == mkpath(r.key)
              IN  /\ Finishes(r, TRUE) => (r.pc = "open" /\ OpenFileFails(fs, p))
                  /\ (TaskOpenFile(r) /\ ~ParentIsDir(fs, p)) => Finishes(r, TRUE)
                  /\ (Finishes(r, FALSE) /\ fs'[p].kind = "file")
                         => HasPrefix(fs'[p].data, r.item)]_vars

\* C18: the map and the list of the cache are in bijection: every key of the
\* map points to an element that is once in the list and holds that key, every
\* element of the list is pointed to by exactly one key, and there are as many
\* keys as elements.
C18_IndexConsistent ==
    /\ \A k \in Resident :
          /\ Cardinality({i \in 1..Len(l) : l[i] = m[k]}) = 1
          /\ elems[m[k]].K = k
    /\ \A i \in 1..Len(l) : Cardinality({k \in CacheKeys : m[k] = l[i]}) = 1
    /\ Cardinality(Resident) = Len(l)

\* C18 witness: a cache of capacity 2 has evicted a key, and the element it
\* reused is at the front of the list
C18_Witness ==
    /\ size = 2
    /\ l = <<1, 2>>
    /\ \E k \in CacheKeys : cset[k] \in Values /\ m[k] = 0

\* the list without element e
Without(ls, e) == SelectSeq(ls, LAMBDA x : x # e)

\* this step is lru.Set(key, item); what tells it from the steps of the write
\* goroutines is looked at first
SetStep(key, item) ==
    /\ fs' = fs /\ sig' = NoSig /\ cset'[key] = item
    /\ LruSet(key, item)

HandedDelete(ts, k) ==
    \E r \in BagToSet(ts) : r.key = k /\ r.item = Nil /\ r.pc = "start"

C21_NoValueDropped ==
    backend =>
        \A k \in CacheKeys :
            cset[k] \in Values =>
                \/ m[k] # 0 /\ elems[m[k]].V = cset[k]
                \/ handed[k]

\* an entry set with an item has left the map and its item went to the backend
C21_Witness ==
    /\ backend
    /\ \E k \in CacheKeys :
          /\ cset[k] \in Values
          /\ m[k] = 0
          /\ handed[k]
          /\ \E j \in CacheKeys : m[j] # 0 /\ cset[j] \in Values

====
